---- MODULE Spec2Model ----
(***************************************************************************)
(* Model of the TEE-bound key-derivation programs:                         *)
(*   attestation-agent-init  (provision_ak: AK provisioning in the TPM)    *)
(*   kbs-local-provider      (initdata::parse, detect_provider, ikm,       *)
(*                            derive_ed25519_seed, fifo::serve)            *)
(* The TPM, the launch-configuration file and the FIFO path are the shared *)
(* environment.  Every TPM command and every file-system call may fail;    *)
(* the failure is a nondeterministic input of the step that issues it.     *)
(***************************************************************************)
EXTENDS Integers, Sequences, FiniteSets, TLC

\* ------------------------------------------------------------------ bounds
MaxRuns == 2      \* invocations of provision_ak, over both provisioning processes
MaxIter == 2
MaxLaunches == 2
MaxCalls == 3      \* iterations of the serve() loop that are explored

\* --------------------------------------------------------------- constants
AK_HANDLE == "0x81010002"     \* the fixed persistent handle
SEED_LEN == 32                 \* [u8; 32]
HASH_LEN == 32                 \* SHA-256 output length
HKDF_MAX_BLOCKS == 255         \* RFC 5869: L <= 255 * HashLen

Procs == {1, 2}                \* two provisioning processes (racing provisioners)

VARIABLES
    persistent,   \* TPM: object stored at AK_HANDLE (NoObj when the handle is empty)
    transient,    \* TPM: set of loaded transient objects
    pc,           \* provisioner: position in provision_ak
    runs,         \* provisioner: number of invocations made so far
    ek,           \* provisioner: `ek` (handle of the transient EK of this run)
    ak,           \* provisioner: `ak` (blobs returned by create)
    ak_handle,    \* provisioner: `ak_handle` (transient handle returned by load)
    probe,        \* provisioner: outcome of the handle-resolution probe
    ops,          \* provisioner: TPM commands issued by the current run, in order
    failedAt,     \* provisioner: the step whose TPM command failed in this run
    result,       \* provisioner: value returned by the current run
    init_data,    \* the launch-configuration file found at the init_data path
    tpm_device,   \* whether DEFAULT_TPM_DEVICE exists
    dpc,          \* kbs-local-provider: position in main / ak_public_key_der / serve
    parsed,       \* kbs-local-provider: `parsed` (ParsedInitData)
    provider,     \* kbs-local-provider: `provider` returned by detect_provider
    ak_obj,       \* ak_public_key_der: `ak_obj` (object resolved at AK_HANDLE)
    ak_public,    \* ak_public_key_der: `ak_public` (public area read from the TPM)
    ikm,          \* kbs-local-provider: `ikm`
    seed,         \* kbs-local-provider: `seed`
    derr,         \* kbs-local-provider: the error main returned ("" when none)
    dops,         \* kbs-local-provider: TPM commands issued, in order
    launches,     \* kbs-local-provider: number of times main has been started
    derived,      \* history: calls of derive_ed25519_seed made, with the seed returned
    json,         \* serve: `json`, the payload
    path,         \* file system: what is at CDH_RESOURCES_PATH
    fifo_id,      \* file system: iteration that created the FIFO at the path (0: not ours)
    iter,         \* serve: iterations of the loop started so far
    file,         \* serve: `file`, the FIFO opened for writing in this iteration
    writes,       \* serve: write_all calls made in the current iteration
    reader,       \* consumer: "away", "waiting" (blocked in open), "connected", "closed"
    reader_fifo,  \* consumer: the FIFO (by fifo_id) the consumer has opened
    received,     \* consumer: payloads read on the current connection
    leaked        \* memory: secret buffers released without being cleared

tpmVars == <<persistent, transient>>
provVars == <<pc, runs, ek, ak, ak_handle, probe, ops, failedAt, result>>
envVars == <<init_data, tpm_device>>
mainVars == <<dpc, parsed, provider, ak_obj, ak_public, ikm, seed, derr, dops,
              launches, derived>>
serveVars == <<json, path, fifo_id, iter, file, writes, reader, reader_fifo, received,
               leaked>>

\* ------------------------------------------------------------- TPM objects
NoObj == [kind |-> "none", alg |-> "none", key |-> <<0, 0>>, by |-> 0, run |-> 0]

\* Objects that something other than provision_ak may have left at the handle.
ForeignObjs ==
    { [kind |-> "foreign", alg |-> a, key |-> <<0, 1>>, by |-> 0, run |-> 0] :
        a \in {"rsa", "ecc", "keyedhash"} }

\* ek_rsa_template: restricted decrypt RSA key, zero-filled unique field, so
\* the same key is regenerated on every run; each run (the n-th of process p)
\* gets its own transient object.
ek_rsa_template(p, n) ==
    [kind |-> "ek", alg |-> "rsa", key |-> <<0, 0>>, by |-> p, run |-> n]

\* ak_rsa_template: restricted signing RSA key, default unique field: a fresh
\* key pair for every create.
ak_rsa_template(p, n) ==
    [kind |-> "ak", alg |-> "rsa", key |-> <<p, n>>, by |-> p, run |-> n]

\* ------------------------------------------------------------- provisioner
ProvInit ==
    /\ pc = [p \in Procs |-> "start"]
    /\ runs = [p \in Procs |-> 0]
    /\ ek = [p \in Procs |-> NoObj]
    /\ ak = [p \in Procs |-> NoObj]
    /\ ak_handle = [p \in Procs |-> NoObj]
    /\ probe = [p \in Procs |-> "none"]
    /\ ops = [p \in Procs |-> <<>>]
    /\ failedAt = [p \in Procs |-> "none"]
    /\ result = [p \in Procs |-> "none"]

\* Variant of the error exit that records the error and jumps to the EK flush
\* instead of returning.
AbortThenFlush(p, step) ==
    /\ failedAt' = [failedAt EXCEPT ![p] = step]
    /\ result' = [result EXCEPT ![p] = "err"]
    /\ pc' = [pc EXCEPT ![p] = IF step = "flush_context" THEN "drop" ELSE "flush_context"]

\* `?` on a failed TPM command: the closure and provision_ak return the error;
\* the TPM context is released on the way out.
Abort(p, step) ==
    /\ failedAt' = [failedAt EXCEPT ![p] = step]
    /\ result' = [result EXCEPT ![p] = "err"]
    /\ pc' = [pc EXCEPT ![p] = "drop"]

\* provision_ak, entry: TctiNameConf::from_str and TpmContext::new.
Invoke(p) ==
    /\ pc[p] = "start"
    /\ runs[1] + runs[2] < MaxRuns
    /\ runs' = [runs EXCEPT ![p] = @ + 1]
    /\ \E ok \in BOOLEAN :
          IF ok
          THEN /\ pc' = [pc EXCEPT ![p] = "probe"]
               /\ UNCHANGED <<result, failedAt>>
          ELSE /\ pc' = [pc EXCEPT ![p] = "done"]
               /\ result' = [result EXCEPT ![p] = "err"]
               /\ failedAt' = [failedAt EXCEPT ![p] = "context"]
    /\ UNCHANGED <<tpmVars, ek, ak, ak_handle, probe, ops, envVars, mainVars, serveVars>>

\* Variant of the probe whose result is never taken as "already exists".
ProbeNeverExists(p) ==
    /\ pc[p] = "probe"
    /\ \E fault \in BOOLEAN :
          LET outcome == IF fault THEN "fault"
                         ELSE IF persistent = NoObj THEN "absent" ELSE "resolved"
          IN /\ probe' = [probe EXCEPT ![p] = outcome]
             /\ pc' = [pc EXCEPT ![p] = "create_primary"]
             /\ UNCHANGED result
    /\ UNCHANGED <<tpmVars, runs, ek, ak, ak_handle, ops, failedAt, envVars, mainVars, serveVars>>

\* tr_from_tpm_public(AK_HANDLE).is_ok(): every error of the probe, the
\* handle being empty or the command failing, gives already_exists = false.
Probe(p) ==
    /\ pc[p] = "probe"
    /\ \E fault \in BOOLEAN :
          LET outcome == IF fault THEN "fault"
                         ELSE IF persistent = NoObj THEN "absent" ELSE "resolved"
              already_exists == (outcome = "resolved")
          IN /\ probe' = [probe EXCEPT ![p] = outcome]
             /\ IF already_exists
                THEN /\ result' = [result EXCEPT ![p] = "ok"]
                     /\ pc' = [pc EXCEPT ![p] = "drop"]
                ELSE /\ pc' = [pc EXCEPT ![p] = "create_primary"]
                     /\ UNCHANGED result
    /\ UNCHANGED <<tpmVars, runs, ek, ak, ak_handle, ops, failedAt, envVars, mainVars, serveVars>>

\* ctx.create_primary(Hierarchy::Endorsement, ek_template, ...)?
CreatePrimary(p) ==
    /\ pc[p] = "create_primary"
    /\ ops' = [ops EXCEPT ![p] = Append(@, "create_primary")]
    /\ \E ok \in BOOLEAN :
          IF ok
          THEN /\ transient' = transient \cup {ek_rsa_template(p, runs[p])}
               /\ ek' = [ek EXCEPT ![p] = ek_rsa_template(p, runs[p])]
               /\ pc' = [pc EXCEPT ![p] = "create"]
               /\ UNCHANGED <<failedAt, result>>
          ELSE /\ Abort(p, "create_primary")
               /\ UNCHANGED <<transient, ek>>
    /\ UNCHANGED <<persistent, runs, ak, ak_handle, probe, envVars, mainVars, serveVars>>

\* Variant of create whose failure ends the run with Ok(()) instead of the
\* error.
CreateSwallowsError(p) ==
    /\ pc[p] = "create"
    /\ ops' = [ops EXCEPT ![p] = Append(@, "create")]
    /\ \E ok \in BOOLEAN :
          IF ok /\ ek[p] \in transient
          THEN /\ ak' = [ak EXCEPT ![p] = ak_rsa_template(p, runs[p])]
               /\ pc' = [pc EXCEPT ![p] = "load"]
               /\ UNCHANGED <<failedAt, result>>
          ELSE /\ result' = [result EXCEPT ![p] = "ok"]
               /\ pc' = [pc EXCEPT ![p] = "drop"]
               /\ UNCHANGED <<ak, failedAt>>
    /\ UNCHANGED <<tpmVars, runs, ek, ak_handle, probe, envVars, mainVars, serveVars>>

\* ctx.create(ek.key_handle, ak_template, ...)?  The key pair is returned as
\* blobs; nothing is loaded in the TPM yet.
Create(p) ==
    /\ pc[p] = "create"
    /\ ops' = [ops EXCEPT ![p] = Append(@, "create")]
    /\ \E ok \in BOOLEAN :
          IF ok /\ ek[p] \in transient
          THEN /\ ak' = [ak EXCEPT ![p] = ak_rsa_template(p, runs[p])]
               /\ pc' = [pc EXCEPT ![p] = "load"]
               /\ UNCHANGED <<failedAt, result>>
          ELSE /\ Abort(p, "create")
               /\ UNCHANGED ak
    /\ UNCHANGED <<tpmVars, runs, ek, ak_handle, probe, envVars, mainVars, serveVars>>

\* Variant of load after which the run goes on with the EK flush, ahead of
\* evict_control.
LoadThenFlush(p) ==
    /\ pc[p] = "load"
    /\ ops' = [ops EXCEPT ![p] = Append(@, "load")]
    /\ \E ok \in BOOLEAN :
          IF ok /\ ek[p] \in transient
          THEN /\ transient' = transient \cup {ak[p]}
               /\ ak_handle' = [ak_handle EXCEPT ![p] = ak[p]]
               /\ pc' = [pc EXCEPT ![p] = "flush_context"]
               /\ UNCHANGED <<failedAt, result>>
          ELSE /\ Abort(p, "load")
               /\ UNCHANGED <<transient, ak_handle>>
    /\ UNCHANGED <<persistent, runs, ek, ak, probe, envVars, mainVars, serveVars>>

\* ctx.load(ek.key_handle, ak.out_private, ak.out_public)?
Load(p) ==
    /\ pc[p] = "load"
    /\ ops' = [ops EXCEPT ![p] = Append(@, "load")]
    /\ \E ok \in BOOLEAN :
          IF ok /\ ek[p] \in transient
          THEN /\ transient' = transient \cup {ak[p]}
               /\ ak_handle' = [ak_handle EXCEPT ![p] = ak[p]]
               /\ pc' = [pc EXCEPT ![p] = "evict_control"]
               /\ UNCHANGED <<failedAt, result>>
          ELSE /\ Abort(p, "load")
               /\ UNCHANGED <<transient, ak_handle>>
    /\ UNCHANGED <<persistent, runs, ek, ak, probe, envVars, mainVars, serveVars>>

\* Variant of evict_control against a TPM that replaces the object at an
\* occupied persistent handle.
EvictControlOverwrite(p) ==
    /\ pc[p] = "evict_control"
    /\ ops' = [ops EXCEPT ![p] = Append(@, "evict_control")]
    /\ \E ok \in BOOLEAN :
          IF ok
          THEN /\ persistent' = ak_handle[p]
               /\ transient' = transient \ {ak_handle[p]}
               /\ pc' = [pc EXCEPT ![p] = "flush_context"]
               /\ UNCHANGED <<failedAt, result>>
          ELSE /\ Abort(p, "evict_control")
               /\ UNCHANGED <<persistent, transient>>
    /\ UNCHANGED <<runs, ek, ak, ak_handle, probe, envVars, mainVars, serveVars>>

\* ctx.evict_control(Provision::Owner, ak_handle, Persistent(AK_HANDLE))?
\* The TPM refuses to define a persistent handle that is already occupied.
\* On success the transient AK handle is consumed (source, line 144).
EvictControl(p) ==
    /\ pc[p] = "evict_control"
    /\ ops' = [ops EXCEPT ![p] = Append(@, "evict_control")]
    /\ \E ok \in BOOLEAN :
          IF ok /\ persistent = NoObj
          THEN /\ persistent' = ak_handle[p]
               /\ transient' = transient \ {ak_handle[p]}
               /\ pc' = [pc EXCEPT ![p] = "flush_context"]
               /\ UNCHANGED <<failedAt, result>>
          ELSE /\ Abort(p, "evict_control")
               /\ UNCHANGED <<persistent, transient>>
    /\ UNCHANGED <<runs, ek, ak, ak_handle, probe, envVars, mainVars, serveVars>>

\* ctx.flush_context(ek.key_handle)?; Ok(())
FlushContext(p) ==
    /\ pc[p] = "flush_context"
    /\ ops' = [ops EXCEPT ![p] = Append(@, "flush_context")]
    /\ \E ok \in BOOLEAN :
          IF ok
          THEN /\ transient' = transient \ {ek[p]}
               /\ result' = [result EXCEPT ![p] = "ok"]
               /\ pc' = [pc EXCEPT ![p] = "drop"]
               /\ UNCHANGED failedAt
          ELSE /\ Abort(p, "flush_context")
               /\ UNCHANGED transient
    /\ UNCHANGED <<persistent, runs, ek, ak, ak_handle, probe, envVars, mainVars, serveVars>>

\* Variant of the release in which a run that ends in an error also removes
\* whatever is at the persistent handle.
DropCtxEvicts(p) ==
    /\ pc[p] = "drop"
    /\ LET held == {ek[p], ak_handle[p]} \cap transient
       IN \E flushed \in SUBSET held : transient' = transient \ flushed
    /\ persistent' = IF result[p] = "err" THEN NoObj ELSE persistent
    /\ pc' = [pc EXCEPT ![p] = "done"]
    /\ UNCHANGED <<runs, ek, ak, ak_handle, probe, ops, failedAt, result, envVars, mainVars, serveVars>>

\* provision_ak returns: `ctx` goes out of scope.  Releasing the TPM context
\* flushes the transient handles the run still holds; a flush that fails
\* there is only logged, so each handle either is flushed or stays loaded.
DropCtx(p) ==
    /\ pc[p] = "drop"
    /\ LET held == {ek[p], ak_handle[p]} \cap transient
       IN \E flushed \in SUBSET held : transient' = transient \ flushed
    /\ pc' = [pc EXCEPT ![p] = "done"]
    /\ UNCHANGED <<persistent, runs, ek, ak, ak_handle, probe, ops, failedAt, result, envVars, mainVars, serveVars>>

\* main of attestation-agent-init is run again by its supervisor (a new
\* process: nothing of the previous run is kept).
Reinvoke(p) ==
    /\ pc[p] = "done"
    /\ runs[1] + runs[2] < MaxRuns
    /\ pc' = [pc EXCEPT ![p] = "start"]
    /\ ek' = [ek EXCEPT ![p] = NoObj]
    /\ ak' = [ak EXCEPT ![p] = NoObj]
    /\ ak_handle' = [ak_handle EXCEPT ![p] = NoObj]
    /\ probe' = [probe EXCEPT ![p] = "none"]
    /\ ops' = [ops EXCEPT ![p] = <<>>]
    /\ failedAt' = [failedAt EXCEPT ![p] = "none"]
    /\ result' = [result EXCEPT ![p] = "none"]
    /\ UNCHANGED <<tpmVars, runs, envVars, mainVars, serveVars>>

\* ------------------------------------------------- launch-configuration file
\* raw: the file's bytes; readable: std::fs::read succeeds; utf8 / toml: the
\* bytes are valid UTF-8 / deserialize into InitData (a `data` table exists);
\* has_ds, ds: data.domain_separator as Option<String>.
InitDataFile(raw, readable, utf8, toml, has_ds, ds) ==
    [raw |-> raw, readable |-> readable, utf8 |-> utf8, toml |-> toml,
     has_ds |-> has_ds, ds |-> ds]

InitDataFiles ==
    { InitDataFile(0, FALSE, FALSE, FALSE, FALSE, ""),
      InitDataFile(1, TRUE, FALSE, FALSE, FALSE, ""),
      InitDataFile(2, TRUE, TRUE, FALSE, FALSE, ""),
      InitDataFile(3, TRUE, TRUE, TRUE, FALSE, ""),
      InitDataFile(4, TRUE, TRUE, TRUE, TRUE, ""),
      InitDataFile(5, TRUE, TRUE, TRUE, TRUE, "confidential-app-v1"),
      InitDataFile(6, TRUE, TRUE, TRUE, TRUE, "confidential-app-v1"),
      InitDataFile(7, TRUE, TRUE, TRUE, TRUE, "confidential-app-v2") }

\* SHA-256 as an ideal hash: a term over its input (no collisions).
Sha256(bytes) == <<"sha256", bytes>>

NoParsed == [domain_separator |-> "", init_data_digest |-> <<>>]

\* Variant of parse that takes any domain_separator the file has, the empty
\* string included.
parseAcceptsEmpty(f) ==
    IF ~f.readable THEN [ok |-> FALSE, err |-> "failed to read init_data", value |-> NoParsed]
    ELSE IF ~f.utf8 THEN [ok |-> FALSE, err |-> "init_data.toml is not valid UTF-8", value |-> NoParsed]
    ELSE IF ~f.toml THEN [ok |-> FALSE, err |-> "failed to parse init_data.toml", value |-> NoParsed]
    ELSE IF ~f.has_ds
         THEN [ok |-> FALSE,
               err |-> "data.domain_separator is missing or empty in init_data.toml (security gate)",
               value |-> NoParsed]
    ELSE [ok |-> TRUE, err |-> "",
          value |-> [domain_separator |-> f.ds, init_data_digest |-> Sha256(f.raw)]]

\* initdata::parse
parse(f) ==
    IF ~f.readable THEN [ok |-> FALSE, err |-> "failed to read init_data", value |-> NoParsed]
    ELSE IF ~f.utf8 THEN [ok |-> FALSE, err |-> "init_data.toml is not valid UTF-8", value |-> NoParsed]
    ELSE IF ~f.toml THEN [ok |-> FALSE, err |-> "failed to parse init_data.toml", value |-> NoParsed]
    ELSE IF ~(f.has_ds /\ f.ds # "")
         THEN [ok |-> FALSE,
               err |-> "data.domain_separator is missing or empty in init_data.toml (security gate)",
               value |-> NoParsed]
    ELSE [ok |-> TRUE, err |-> "",
          value |-> [domain_separator |-> f.ds, init_data_digest |-> Sha256(f.raw)]]

\* --------------------------------------------------------------- derivation
\* HMAC-SHA256 as an ideal keyed hash: a term over (key, message).
HmacSha256(key, msg) == <<"hmac-sha256", key, msg>>

\* Hkdf::<Sha256>::new(Some(salt), ikm): the extract phase.
hkdf_new(salt, ikm_bytes) == HmacSha256(salt, ikm_bytes)

\* Hkdf::expand(info, okm): fails when okm is longer than 255 blocks; else
\* okm is the first len bytes of T(1) | T(2) | ..., T(i) = HMAC(prk, T(i-1) | info | i).
RECURSIVE hkdf_T(_, _, _)
hkdf_T(prk, info, i) ==
    IF i = 0 THEN <<>> ELSE HmacSha256(prk, <<hkdf_T(prk, info, i - 1), info, i>>)

\* Variant of expand that leaves info out of the blocks it computes.
hkdf_expand_no_info(prk, info, len) ==
    IF len > HKDF_MAX_BLOCKS * HASH_LEN
    THEN [ok |-> FALSE, okm |-> <<>>]
    ELSE LET n == (len + HASH_LEN - 1) \div HASH_LEN
         IN [ok |-> TRUE,
             okm |-> <<"okm", len, [i \in 1..n |-> hkdf_T(prk, "", i)]>>]

hkdf_expand(prk, info, len) ==
    IF len > HKDF_MAX_BLOCKS * HASH_LEN
    THEN [ok |-> FALSE, okm |-> <<>>]
    ELSE LET n == (len + HASH_LEN - 1) \div HASH_LEN
         IN [ok |-> TRUE,
             okm |-> <<"okm", len, [i \in 1..n |-> hkdf_T(prk, info, i)]>>]

\* Variant of the derivation whose salt also takes in something that is not
\* one of its three arguments (here: what is found at the FIFO path).
derive_seed_stateful(ikm_bytes, init_data_digest, domain_separator) ==
    LET hk == hkdf_new(<<init_data_digest, path>>, ikm_bytes)
        r == hkdf_expand(hk, domain_separator, SEED_LEN)
    IN [panic |-> ~r.ok, seed |-> r.okm]

\* crypto::derive_ed25519_seed; `panic` is the .expect() on expand.
derive_ed25519_seed(ikm_bytes, init_data_digest, domain_separator) ==
    LET hk == hkdf_new(init_data_digest, ikm_bytes)
        r == hkdf_expand(hk, domain_separator, SEED_LEN)
    IN [panic |-> ~r.ok, seed |-> r.okm]

\* picky SubjectPublicKeyInfo::new_rsa_key(modulus, public_exponent), DER-encoded.
\* The RSA modulus of an object is its key; RsaExponent::default() is 65537.
SubjectPublicKeyInfo(pub) == <<"SPKI", "rsaEncryption", pub.key, 65537>>

\* A call of derive_ed25519_seed, with the seed it returned; n is the launch
\* of main that made the call (0 for a direct call).
DerivedCall(n, i, d, ds) ==
    [launch |-> n, ikm |-> i, digest |-> d, domain_separator |-> ds,
     seed |-> derive_ed25519_seed(i, d, ds).seed]

\* ------------------------------------------------- kbs-local-provider: main
MainInit ==
    /\ dpc = "parse"
    /\ parsed = NoParsed
    /\ provider = "none"
    /\ ak_obj = NoObj
    /\ ak_public = NoObj
    /\ ikm = <<>>
    /\ seed = <<>>
    /\ derr = ""
    /\ dops = <<>>
    /\ launches = 1
    /\ derived = {}

\* `?` in main: the error is returned and the process exits.
Fail(msg) ==
    /\ derr' = msg
    /\ dpc' = "failed"

\* let parsed = initdata::parse()?;
Parse ==
    /\ dpc = "parse"
    /\ LET r == parse(init_data)
       IN IF r.ok
          THEN /\ parsed' = r.value
               /\ dpc' = "detect"
               /\ UNCHANGED derr
          ELSE /\ Fail(r.err)
               /\ UNCHANGED parsed
    /\ UNCHANGED <<tpmVars, provVars, envVars, serveVars, launches, derived,
                   provider, ak_obj, ak_public, ikm, seed, dops>>

\* tpm::detect_platform
detect_platform == tpm_device

\* Variant of detect_provider that returns the TPM provider without looking
\* for the device.
DetectProviderUnchecked ==
    /\ dpc = "detect"
    /\ provider' = "tpm"
    /\ dpc' = "ikm_context"
    /\ UNCHANGED derr
    /\ UNCHANGED <<tpmVars, provVars, envVars, serveVars, launches, derived,
                   parsed, ak_obj, ak_public, ikm, seed, dops>>

\* let provider = provider::detect_provider()?;
DetectProvider ==
    /\ dpc = "detect"
    /\ IF detect_platform
       THEN /\ provider' = "tpm"
            /\ dpc' = "ikm_context"
            /\ UNCHANGED derr
       ELSE /\ Fail("no seed provider detected")
            /\ UNCHANGED provider
    /\ UNCHANGED <<tpmVars, provVars, envVars, serveVars, launches, derived,
                   parsed, ak_obj, ak_public, ikm, seed, dops>>

\* provider.ikm() -> ak_public_key_der: TctiNameConf::from_str, TpmContext::new
IkmContext ==
    /\ dpc = "ikm_context"
    /\ dops' = Append(dops, "context")
    /\ \E ok \in BOOLEAN :
          IF ok
          THEN /\ dpc' = "ikm_resolve"
               /\ UNCHANGED derr
          ELSE Fail("failed to create TPM context")
    /\ UNCHANGED <<tpmVars, provVars, envVars, serveVars, launches, derived,
                   parsed, provider, ak_obj, ak_public, ikm, seed>>

\* Variant of the resolution that goes on with whatever the TPM returned when
\* no object is at the handle.
IkmResolveLenient ==
    /\ dpc = "ikm_resolve"
    /\ dops' = Append(dops, "tr_from_tpm_public")
    /\ \E ok \in BOOLEAN :
          IF ok
          THEN /\ ak_obj' = IF persistent # NoObj THEN persistent ELSE ek_rsa_template(0, 0)
               /\ dpc' = "ikm_read_public"
               /\ UNCHANGED derr
          ELSE /\ Fail("AK not found at handle")
               /\ UNCHANGED ak_obj
    /\ UNCHANGED <<tpmVars, provVars, envVars, serveVars, launches, derived,
                   parsed, provider, ak_public, ikm, seed>>

\* ctx.tr_from_tpm_public(AK_HANDLE): every error gets the same context.
IkmResolve ==
    /\ dpc = "ikm_resolve"
    /\ dops' = Append(dops, "tr_from_tpm_public")
    /\ \E ok \in BOOLEAN :
          IF ok /\ persistent # NoObj
          THEN /\ ak_obj' = persistent
               /\ dpc' = "ikm_read_public"
               /\ UNCHANGED derr
          ELSE /\ Fail("AK not found at handle")
               /\ UNCHANGED ak_obj
    /\ UNCHANGED <<tpmVars, provVars, envVars, serveVars, launches, derived,
                   parsed, provider, ak_public, ikm, seed>>

\* Variant of read_public that leaves the object it read loaded in the TPM
\* as a transient object.
IkmReadPublicLoads ==
    /\ dpc = "ikm_read_public"
    /\ dops' = Append(dops, "read_public")
    /\ \E ok \in BOOLEAN :
          IF ok /\ persistent # NoObj
          THEN /\ ak_public' = persistent
               /\ transient' = transient \cup {persistent}
               /\ dpc' = "ikm_decode"
               /\ UNCHANGED derr
          ELSE /\ Fail("failed to read AK public key")
               /\ UNCHANGED <<ak_public, transient>>
    /\ UNCHANGED <<persistent, provVars, envVars, serveVars, launches, derived,
                   parsed, provider, ak_obj, ikm, seed>>

\* ctx.read_public(ak_obj)
IkmReadPublic ==
    /\ dpc = "ikm_read_public"
    /\ dops' = Append(dops, "read_public")
    /\ \E ok \in BOOLEAN :
          IF ok /\ persistent # NoObj
          THEN /\ ak_public' = persistent
               /\ dpc' = "ikm_decode"
               /\ UNCHANGED derr
          ELSE /\ Fail("failed to read AK public key")
               /\ UNCHANGED ak_public
    /\ UNCHANGED <<tpmVars, provVars, envVars, serveVars, launches, derived,
                   parsed, provider, ak_obj, ikm, seed>>

\* Variant of the decoding that takes the key of any decoded object, RSA or
\* not, as the key material.
IkmDecodeAnyKey ==
    /\ dpc = "ikm_decode"
    /\ IF ak_public.alg \notin {"rsa", "ecc"}
       THEN /\ Fail("failed to decode AK public key")
            /\ UNCHANGED ikm
       ELSE /\ ikm' = SubjectPublicKeyInfo(ak_public)
            /\ dpc' = "derive"
            /\ UNCHANGED derr
    /\ UNCHANGED <<tpmVars, provVars, envVars, serveVars, launches, derived,
                   parsed, provider, ak_obj, ak_public, seed, dops>>

\* DecodedKey::try_from(ak_public), the RsaPublicKey match, and the DER encoding.
IkmDecode ==
    /\ dpc = "ikm_decode"
    /\ IF ak_public.alg \notin {"rsa", "ecc"}
       THEN /\ Fail("failed to decode AK public key")
            /\ UNCHANGED ikm
       ELSE IF ak_public.alg # "rsa"
       THEN /\ Fail("AK is not an RSA key")
            /\ UNCHANGED ikm
       ELSE /\ ikm' = SubjectPublicKeyInfo(ak_public)
            /\ dpc' = "derive"
            /\ UNCHANGED derr
    /\ UNCHANGED <<tpmVars, provVars, envVars, serveVars, launches, derived,
                   parsed, provider, ak_obj, ak_public, seed, dops>>

\* let seed = derive_ed25519_seed(&ikm, &parsed.init_data_digest, &parsed.domain_separator);
Derive ==
    /\ dpc = "derive"
    /\ LET r == derive_ed25519_seed(ikm, parsed.init_data_digest, parsed.domain_separator)
       IN IF r.panic
          THEN /\ dpc' = "panicked"
               /\ UNCHANGED <<seed, derived>>
          ELSE /\ seed' = r.seed
               /\ dpc' = "serve"
               /\ derived' = derived \cup {DerivedCall(launches, ikm, parsed.init_data_digest,
                                                       parsed.domain_separator)}
    /\ UNCHANGED <<tpmVars, provVars, envVars, serveVars, launches,
                   parsed, provider, ak_obj, ak_public, ikm, derr, dops>>

\* The process is started again after it exited or was stopped while serving
\* (a service restart within the same launch: init_data and the TPM stay).
Restart ==
    /\ dpc \in {"failed", "panicked", "serve"}
    /\ launches < MaxLaunches
    /\ dpc' = "parse"
    /\ parsed' = NoParsed
    /\ provider' = "none"
    /\ ak_obj' = NoObj
    /\ ak_public' = NoObj
    /\ ikm' = <<>>
    /\ seed' = <<>>
    /\ derr' = ""
    /\ dops' = <<>>
    /\ launches' = launches + 1
    /\ UNCHANGED <<tpmVars, provVars, envVars, serveVars, derived>>

\* -------------------------------------------------------------- fifo::serve
\* B64.encode as a term over the bytes it encodes.
B64_encode(bytes) == <<"base64", bytes>>

\* format!("{{\"default/key/1\": \"{encoded}\"}}\n")
format_json(encoded) == <<"{", "default/key/1", encoded, "}", "\n">>

ServeInit ==
    /\ json = <<>>
    /\ fifo_id = 0
    /\ iter = 0
    /\ file = FALSE
    /\ writes = 0
    /\ reader = "away"
    /\ reader_fifo = 0
    /\ received = <<>>
    /\ leaked = {}

\* serve returns through `?`: its locals are dropped.  `encoded` and `json`
\* are plain Strings, whose storage is freed with the contents still in it.
DropLocals ==
    leaked' = IF dpc' = "failed" THEN leaked \cup {B64_encode(seed), json} ELSE leaked

\* fifo::serve(&seed)?, lines before the loop: encoded, json, path, mode.
ServeStart ==
    /\ dpc = "serve"
    /\ json' = format_json(B64_encode(seed))
    /\ dpc' = "serve_create"
    /\ UNCHANGED <<tpmVars, provVars, envVars, parsed, provider, ak_obj, ak_public,
                   launches, derived, ikm, seed, derr, dops,
                   path, fifo_id, iter, file, writes, reader, reader_fifo, received,
                   leaked>>

\* Path::exists follows symbolic links: a dangling link does not exist.
path_exists(p) == p \in {"regular", "fifo"}

\* Variant of create_fifo that keeps whatever already exists at the path and
\* calls mkfifo only when nothing is there.
CreateFifoKeepStale ==
    /\ dpc = "serve_create"
    /\ iter < MaxIter
    /\ iter' = iter + 1
    /\ writes' = 0
    /\ \E mk_ok \in BOOLEAN :
          IF path_exists(path)
          THEN /\ dpc' = "serve_open"
               /\ UNCHANGED <<path, fifo_id, derr>>
          ELSE IF mk_ok /\ path = "absent"
               THEN /\ path' = "fifo"
                    /\ fifo_id' = iter + 1
                    /\ dpc' = "serve_open"
                    /\ UNCHANGED derr
               ELSE /\ Fail("failed to create FIFO")
                    /\ UNCHANGED <<path, fifo_id>>
    /\ UNCHANGED <<tpmVars, provVars, envVars, parsed, provider, ak_obj, ak_public,
                   launches, derived, ikm, seed, dops,
                   json, file, reader, reader_fifo, received>>
    /\ DropLocals

\* loop { create_fifo(path, mode)?; ... : remove a stale file, then mkfifo.
CreateFifo ==
    /\ dpc = "serve_create"
    /\ iter < MaxIter
    /\ iter' = iter + 1
    /\ writes' = 0
    /\ \E rm_ok \in BOOLEAN, mk_ok \in BOOLEAN :
          IF path_exists(path) /\ ~rm_ok
          THEN /\ Fail("failed to remove stale FIFO")
               /\ UNCHANGED <<path, fifo_id>>
          ELSE LET left == IF path_exists(path) THEN "absent" ELSE path
               IN IF mk_ok /\ left = "absent"
                  THEN /\ path' = "fifo"
                       /\ fifo_id' = iter + 1
                       /\ dpc' = "serve_open"
                       /\ UNCHANGED derr
                  ELSE /\ Fail("failed to create FIFO")
                       /\ path' = left
                       /\ UNCHANGED fifo_id
    /\ UNCHANGED <<tpmVars, provVars, envVars, parsed, provider, ak_obj, ak_public,
                   launches, derived, ikm, seed, dops,
                   json, file, reader, reader_fifo, received>>
    /\ DropLocals

\* OpenOptions::new().write(true).open(path)?: blocks until a reader has the
\* FIFO open (rendezvous), or fails.
OpenFifo ==
    /\ dpc = "serve_open"
    /\ \/ /\ path = "fifo"
          /\ reader = "waiting"
          /\ reader_fifo = fifo_id
          /\ file' = TRUE
          /\ reader' = "connected"
          /\ dpc' = "serve_write"
          /\ UNCHANGED derr
       \/ /\ Fail("failed to open FIFO for writing")
          /\ UNCHANGED <<file, reader>>
    /\ UNCHANGED <<tpmVars, provVars, envVars, parsed, provider, ak_obj, ak_public,
                   launches, derived, ikm, seed, dops,
                   json, path, fifo_id, iter, writes, reader_fifo, received>>
    /\ DropLocals

\* file.write_all(json.as_bytes())?; drop(file);  A failed write may have
\* passed part of the payload to the reader before it failed.
WriteAll ==
    /\ dpc = "serve_write"
    /\ writes' = writes + 1
    /\ file' = FALSE
    /\ \/ /\ reader = "connected"
          /\ received' = Append(received, json)
          /\ dpc' = "serve_remove"
          /\ UNCHANGED derr
       \/ /\ Fail("failed to write CDH resources to FIFO")
          /\ \/ UNCHANGED received
             \/ /\ reader = "connected"
                /\ received' = Append(received, <<"partial">>)
    /\ UNCHANGED <<tpmVars, provVars, envVars, parsed, provider, ak_obj, ak_public,
                   launches, derived, ikm, seed, dops,
                   json, path, fifo_id, iter, reader, reader_fifo>>
    /\ DropLocals

\* fs::remove_file(path).ok(); } : the result is discarded, the loop repeats.
RemoveFifo ==
    /\ dpc = "serve_remove"
    /\ \E rm_ok \in BOOLEAN :
          path' = IF rm_ok THEN "absent" ELSE path
    /\ dpc' = "serve_create"
    /\ UNCHANGED <<tpmVars, provVars, envVars, parsed, provider, ak_obj, ak_public,
                   launches, derived, ikm, seed, derr, dops, json, fifo_id, iter, file, writes,
                   reader, reader_fifo, received, leaked>>

\* The consumer opens the path for reading and blocks until a writer opens it.
ReaderOpen ==
    /\ reader = "away"
    /\ path = "fifo"
    /\ reader' = "waiting"
    /\ reader_fifo' = fifo_id
    /\ received' = <<>>
    /\ UNCHANGED <<tpmVars, provVars, envVars, mainVars, leaked,
                   json, path, fifo_id, iter, file, writes>>

\* The consumer closes its end (after reading, or because it went away).
ReaderClose ==
    /\ reader \in {"waiting", "connected"}
    /\ reader' = "away"
    /\ UNCHANGED <<tpmVars, provVars, envVars, mainVars, leaked,
                   json, path, fifo_id, iter, file, writes, reader_fifo, received>>

\* ----------------------------------------------------------- specifications
vars == <<tpmVars, provVars, envVars, mainVars, serveVars>>

\* The TPM shared by the provisioning processes and one derivation run.
Init ==
    /\ persistent \in {NoObj} \cup ForeignObjs
    /\ transient = {}
    /\ ProvInit
    /\ init_data = InitDataFile(5, TRUE, TRUE, TRUE, TRUE, "confidential-app-v1")
    /\ tpm_device = TRUE
    /\ MainInit
    /\ ServeInit
    /\ path = "absent"

Next ==
    \/ \E p \in Procs : Invoke(p)
    \/ \E p \in Procs : Probe(p)
    \/ \E p \in Procs : CreatePrimary(p)
    \/ \E p \in Procs : Create(p)
    \/ \E p \in Procs : Load(p)
    \/ \E p \in Procs : EvictControl(p)
    \/ \E p \in Procs : FlushContext(p)
    \/ \E p \in Procs : DropCtx(p)
    \/ \E p \in Procs : Reinvoke(p)
    \/ Parse
    \/ DetectProvider
    \/ IkmContext
    \/ IkmResolve
    \/ IkmReadPublic
    \/ IkmDecode
    \/ Derive

Spec == Init /\ [][Next]_vars

\* derive_ed25519_seed called directly on arguments drawn from small sets.
IkmInputs ==
    { SubjectPublicKeyInfo(ak_rsa_template(1, 1)),
      SubjectPublicKeyInfo(ak_rsa_template(2, 1)) }
DigestInputs == { Sha256(5), Sha256(6) }
DomainSeparators == { "confidential-app-v1", "confidential-app-v2", "" }

DeriveCall ==
    /\ Cardinality(derived) < MaxCalls
    /\ \E i \in IkmInputs, d \in DigestInputs, ds \in DomainSeparators :
          derived' = derived \cup {DerivedCall(0, i, d, ds)}
    /\ UNCHANGED <<tpmVars, provVars, envVars, serveVars,
                   dpc, parsed, provider, ak_obj, ak_public, ikm, seed, derr, dops,
                   launches>>

NextKdf == DeriveCall

SpecKdf == Init /\ [][NextKdf]_vars

\* The same system, with the derivation process started again after it ended.
NextRestart ==
    \/ Next
    \/ Restart

SpecRestart == Init /\ [][NextRestart]_vars

\* One run of kbs-local-provider, from main to the serving loop, against a
\* TPM that no provisioning process is using.
InitMain ==
    /\ persistent \in {NoObj} \cup ForeignObjs \cup {ak_rsa_template(1, 1)}
    /\ transient = {}
    /\ ProvInit
    /\ init_data \in InitDataFiles
    /\ tpm_device \in BOOLEAN
    /\ MainInit
    /\ ServeInit
    /\ path \in {"absent", "regular", "fifo", "dangling"}

NextMain ==
    \/ Parse
    \/ DetectProvider
    \/ IkmContext
    \/ IkmResolve
    \/ IkmReadPublic
    \/ IkmDecode
    \/ Derive
    \/ ServeStart
    \/ CreateFifo
    \/ OpenFifo
    \/ WriteAll
    \/ RemoveFifo
    \/ ReaderOpen
    \/ ReaderClose

SpecMain == InitMain /\ [][NextMain]_vars

\* ------------------------------------------------------------------- claims
\* A step of provisioning process p.
StepOf(p) == pc'[p] # pc[p]

\* C1: when the probe of provision_ak resolves an object at the fixed handle
\* (whatever that object is), the run returns success, has issued no
\* TPM-mutating command (create_primary, create, load, evict_control,
\* flush_context), and none of its steps changes the TPM state; this holds for
\* every invocation made in such a state.
C1_IdempotentProvisioning ==
    /\ [](\A p \in Procs :
            probe[p] = "resolved" =>
                /\ result[p] = "ok"
                /\ ops[p] = <<>>
                /\ pc[p] \in {"drop", "done"}
                /\ persistent # NoObj)
    /\ [][\A p \in Procs :
            (StepOf(p) /\ (probe[p] = "resolved" \/ probe'[p] = "resolved"))
                => UNCHANGED tpmVars]_vars

\* Two invocations have both found the handle populated and returned success.
C1_Witness ==
    /\ persistent # NoObj
    /\ \A p \in Procs : pc[p] = "done" /\ probe[p] = "resolved" /\ result[p] = "ok"

\* The launch configuration is unreadable, unparsable, or has no or an empty
\* data.domain_separator.
GateClosed ==
    \/ ~init_data.readable
    \/ ~init_data.utf8
    \/ ~init_data.toml
    \/ ~init_data.has_ds
    \/ init_data.ds = ""

ParseErrors ==
    { "failed to read init_data",
      "init_data.toml is not valid UTF-8",
      "failed to parse init_data.toml",
      "data.domain_separator is missing or empty in init_data.toml (security gate)" }

\* C2: with such a launch configuration, main of kbs-local-provider fails in
\* parse: no provider is detected, no TPM session is opened for the IKM, no
\* seed is derived and no FIFO is created or written.
C2_SecurityGate ==
    GateClosed =>
        /\ dpc \in {"parse", "failed"}
        /\ dpc = "failed" => derr \in ParseErrors
        /\ provider = "none"
        /\ dops = <<>>
        /\ ikm = <<>>
        /\ seed = <<>>
        /\ json = <<>>
        /\ iter = 0 /\ fifo_id = 0 /\ ~file /\ writes = 0
        /\ received = <<>>

\* A run has failed on a configuration whose domain separator is empty, on a
\* machine where the TPM device exists and an AK is provisioned.
C2_Witness ==
    /\ init_data.has_ds /\ init_data.ds = ""
    /\ dpc = "failed"
    /\ tpm_device
    /\ persistent.kind = "ak"

\* TPM commands that read and never change the TPM's objects.
ReadOnlyCommands == {"context", "tr_from_tpm_public", "read_public"}

\* C3: a derivation run that resolves the AK handle while no object is
\* persisted there fails with the "AK not found" error and has no IKM and no
\* seed; a failed run stays failed; the IKM of a run is always the encoding
\* of the object persisted at the fixed handle; and the derivation path
\* issues only read commands and changes nothing in the TPM.
C3_NoSubstituteKey ==
    /\ [][(dpc = "ikm_resolve" /\ dpc' # dpc /\ persistent = NoObj) =>
             (dpc' = "failed" /\ derr' = "AK not found at handle"
              /\ ikm' = <<>> /\ seed' = <<>>)]_vars
    /\ [][dpc = "failed" => (dpc' = "failed" /\ ikm' = <<>> /\ seed' = <<>>)]_vars
    /\ [][dpc' # dpc => UNCHANGED tpmVars]_vars
    /\ [](/\ ak_obj # NoObj => ak_obj = persistent
          /\ ak_public # NoObj => ak_public = persistent
          /\ ikm # <<>> => (persistent # NoObj /\ ikm = SubjectPublicKeyInfo(persistent))
          /\ seed # <<>> => ikm # <<>>
          /\ \A i \in 1..Len(dops) : dops[i] \in ReadOnlyCommands)

\* A derivation run has failed on the resolution while the handle was empty
\* (and the handle is still empty).
C3_Witness ==
    /\ dpc = "failed"
    /\ derr = "AK not found at handle"
    /\ persistent = NoObj
    /\ dops = <<"context", "tr_from_tpm_public">>

\* The TPM commands of steps 3a-3e, in the order of the source.
ProvisionSteps == <<"create_primary", "create", "load", "evict_control", "flush_context">>

StepsBeforeEvict == {"create_primary", "create", "load"}

StepIndex(step) == CHOOSE i \in 1..Len(ProvisionSteps) : ProvisionSteps[i] = step

\* The commands a run has issued stop at the step that failed.
StopsAtFailure(p) ==
    failedAt[p] \in {ProvisionSteps[i] : i \in 1..Len(ProvisionSteps)} =>
        /\ result[p] = "err"
        /\ pc[p] \in {"drop", "done"}
        /\ ops[p] = SubSeq(ProvisionSteps, 1, StepIndex(failedAt[p]))

\* C4 as stated: when one of EK creation, AK creation, AK load, evict-control
\* and EK flush fails, the run issues none of the later steps and returns an
\* error; and when the failing step comes before evict-control, no object
\* exists at the fixed persistent handle after the run.
C4_Original ==
    \A p \in Procs :
        /\ StopsAtFailure(p)
        /\ (pc[p] = "done" /\ failedAt[p] \in StepsBeforeEvict) => persistent = NoObj

\* C4, amended: when one of the five steps fails, the run issues none of the
\* later steps and returns an error; the fixed persistent handle is changed
\* by nothing but a successful evict-control, so a run whose failing step
\* comes before evict-control has persisted nothing: the object at the handle,
\* if any, is not one this run created.
C4_FailureSemantics ==
    /\ [](\A p \in Procs :
            /\ StopsAtFailure(p)
            /\ failedAt[p] \in StepsBeforeEvict =>
                  (persistent = NoObj \/ persistent.key # <<p, runs[p]>>))
    /\ [][\A p \in Procs :
            (StepOf(p) /\ ~(pc[p] = "evict_control" /\ pc'[p] = "flush_context"))
                => persistent' = persistent]_vars

\* A run has failed at the AK load and returned, and the handle is empty.
C4_Witness ==
    \E p \in Procs :
        /\ pc[p] = "done"
        /\ failedAt[p] = "load"
        /\ result[p] = "err"
        /\ ops[p] = <<"create_primary", "create", "load">>
        /\ persistent = NoObj

\* C5: with two provision_ak processes interleaved on one TPM, every run that
\* has returned has returned success or an error; the fixed handle is empty,
\* or holds the object it held before any run, or holds one RSA AK; the handle
\* changes only from empty, by the evict-control of a run that has itself
\* issued create_primary, create and load, and to the AK that this run
\* created and loaded; hence a populated handle is never overwritten.
C5_RacingProvisioners ==
    /\ [](/\ \A p \in Procs : pc[p] = "done" => result[p] \in {"ok", "err"}
          /\ \/ persistent = NoObj
             \/ persistent \in ForeignObjs
             \/ /\ persistent.kind = "ak"
                /\ persistent.alg = "rsa"
                /\ persistent.by \in Procs
                /\ persistent.key[1] = persistent.by)
    /\ [][persistent' # persistent =>
            /\ persistent = NoObj
            /\ \E p \in Procs :
                  /\ pc[p] = "evict_control" /\ pc'[p] = "flush_context"
                  /\ ops'[p] = <<"create_primary", "create", "load", "evict_control">>
                  /\ persistent' = ak_rsa_template(p, runs[p])
                  /\ persistent' = ak[p] /\ persistent' = ak_handle[p]]_vars

\* Both processes saw the handle empty; one persisted its AK and returned
\* success, the other got the conflict at evict-control and returned an error.
C5_Witness ==
    \E p \in Procs, q \in Procs :
        /\ p # q
        /\ pc[p] = "done" /\ pc[q] = "done"
        /\ probe[p] = "absent" /\ probe[q] = "absent"
        /\ result[p] = "ok" /\ persistent = ak[p]
        /\ result[q] = "err" /\ failedAt[q] = "evict_control"

\* C6 as stated: in every run of provision_ak that created an EK, the EK has
\* been flushed by the time the run returns, with success or with an error
\* at a later step, and the EK is never the object persisted at the handle.
C6_Original ==
    /\ persistent.kind # "ek"
    /\ \A p \in Procs : (pc[p] = "done" /\ ek[p] # NoObj) => ek[p] \notin transient

\* The payload serve() writes for the seed of this run.
Payload == format_json(B64_encode(seed))

\* In every iteration the writer opens and writes a FIFO created in that very
\* iteration (never a stale file), the payload is written at most once per
\* iteration and per reader connection, and exactly once before the removal.
FreshPipeWrittenOnce ==
    /\ dpc \in {"serve_open", "serve_write"} => (path = "fifo" /\ fifo_id = iter)
    /\ dpc = "serve_write" => (file /\ writes = 0 /\ reader_fifo = iter)
    /\ writes <= 1
    /\ Len(received) <= 1
    /\ dpc = "serve_remove" => (writes = 1 /\ ~file)

\* A write that succeeds gives the connected reader the one payload of its
\* connection; after it the loop goes to the removal and from there to the
\* next iteration; it never returns from there.
LoopContinues ==
    /\ (dpc = "serve_write" /\ dpc' = "serve_remove")
          => (reader = "connected" /\ received' = <<Payload>>)
    /\ dpc = "serve_remove" => dpc' \in {"serve_remove", "serve_create"}

C8_Original ==
    [][dpc = "serve_write" => dpc' \in {"serve_write", "serve_remove", "serve_create"}]_vars

\* C9 as stated: every failing step aborts the operation and is returned as
\* an error; in particular a failed handle-resolution probe makes
\* provision_ak return an error instead of going on.
C9_Original ==
    \A p \in Procs :
        probe[p] = "fault" => (result[p] = "err" /\ pc[p] \in {"drop", "done"})

\* HKDF-SHA256 (RFC 5869) of the three inputs, written out for one output
\* block: OKM = the first 32 bytes of T(1) = HMAC(PRK, "" | info | 0x01) with
\* PRK = HMAC(salt, IKM).
Rfc5869Seed(ikm_bytes, salt, info) ==
    <<"okm", 32, <<HmacSha256(HmacSha256(salt, ikm_bytes), <<<<>>, info, 1>>)>> >>

\* C10: the seed derive_ed25519_seed returns is the HKDF-SHA256 output for
\* (ikm, init_data_digest, domain_separator) and nothing else: the same three
\* inputs give the same 32-byte seed whatever the TPM, the file system or the
\* process were doing; the derivation never takes its error exit.
C10_Determinism ==
    /\ dpc # "panicked"
    /\ seed # <<>> =>
          /\ seed = Rfc5869Seed(ikm, parsed.init_data_digest, parsed.domain_separator)
          /\ seed = Rfc5869Seed(SubjectPublicKeyInfo(persistent), Sha256(init_data.raw),
                                init_data.ds)
          /\ seed[2] = SEED_LEN

\* A seed has been derived from a provisioned AK and the second valid
\* configuration file, and the serving loop has created its first FIFO.
C10_Witness ==
    /\ seed # <<>>
    /\ persistent.kind = "ak"
    /\ init_data.raw = 6
    /\ dpc = "serve_open"
    /\ iter = 1

\* C11: for a fixed key material and a fixed init_data digest, calls of
\* derive_ed25519_seed with two different domain separators return different
\* seeds; in particular "confidential-app-v1" and "confidential-app-v2" do.
C11_DomainSeparation ==
    /\ \A a, b \in derived :
          (a.ikm = b.ikm /\ a.digest = b.digest
           /\ a.domain_separator # b.domain_separator) => a.seed # b.seed
    /\ \A i \in IkmInputs, d \in DigestInputs :
          derive_ed25519_seed(i, d, "confidential-app-v1").seed
             # derive_ed25519_seed(i, d, "confidential-app-v2").seed

\* Two calls with the same key material and digest, one with domain separator
\* "confidential-app-v1" and one with "confidential-app-v2", have been made.
C11_Witness ==
    \E a, b \in derived :
       /\ a.ikm = b.ikm /\ a.digest = b.digest
       /\ a.domain_separator = "confidential-app-v1"
       /\ b.domain_separator = "confidential-app-v2"

\* What a run holds once its k-th provisioning step has succeeded.
StepSucceeded(p, k) ==
    CASE k = 1 -> ek[p] = ek_rsa_template(p, runs[p])
      [] k = 2 -> ak[p] = ak_rsa_template(p, runs[p])
      [] k = 3 -> ak_handle[p] = ak[p]
      [] k = 4 -> persistent = ak[p]
      [] OTHER -> TRUE

\* C12: within one provisioning run the steps are issued in the order EK
\* creation, AK creation, load, evict-control, EK flush: the commands issued
\* so far are always an initial part of that sequence (so each at most once),
\* and a step is issued only when the probe found no object and every step
\* before it has succeeded.
C12_StepOrdering ==
    /\ [](\A p \in Procs :
            /\ Len(ops[p]) <= Len(ProvisionSteps)
            /\ ops[p] = SubSeq(ProvisionSteps, 1, Len(ops[p])))
    /\ [][\A p \in Procs :
            (ops'[p] # ops[p] /\ ops'[p] # <<>>) =>
               /\ ops'[p] = Append(ops[p], ProvisionSteps[Len(ops[p]) + 1])
               /\ probe[p] \in {"absent", "fault"}
               /\ failedAt[p] = "none" /\ result[p] = "none"
               /\ \A k \in 1..Len(ops[p]) : StepSucceeded(p, k)]_vars

\* A run has issued all five steps, in order, and returned success.
C12_Witness ==
    \E p \in Procs :
       /\ ops[p] = ProvisionSteps
       /\ result[p] = "ok"
       /\ pc[p] = "done"

\* C13 as stated: the derivation run reports 'AK not found at handle' exactly
\* when the TPM is reachable and no object resolves at the handle; a resolution
\* that fails for another reason is never reported as 'AK not found'.  (Under
\* SpecMain nothing changes the handle, so `persistent` is what the resolution
\* saw.)
C13_Original ==
    derr = "AK not found at handle" => persistent = NoObj

\* C14 as stated: every buffer that holds the seed or an encoding of it (the
\* seed array, its base64 string, the JSON payload string) is cleared before
\* it is released, on every exit path of serve and main: no released buffer
\* still holds the base64 string or the payload.
C14_Original ==
    \A b \in leaked : b \notin {B64_encode(seed), format_json(B64_encode(seed))}

\* C15: when the object at the AK handle is not an RSA key, ikm() returns an
\* error and the run ends: no key material, no seed, no payload, nothing
\* served; once the public area has been decoded the run has failed with the
\* error of the decoding or of the RSA match.
C15_UnsupportedKeyType ==
    (persistent # NoObj /\ persistent.alg # "rsa") =>
        /\ ikm = <<>> /\ seed = <<>> /\ derived = {} /\ json = <<>>
        /\ received = <<>>
        /\ dpc \in {"parse", "detect", "ikm_context", "ikm_resolve",
                    "ikm_read_public", "ikm_decode", "failed"}
        /\ (ak_public # NoObj /\ dpc # "ikm_decode") =>
               /\ dpc = "failed"
               /\ derr \in {"AK is not an RSA key", "failed to decode AK public key"}

\* The object at the handle is an ECC key and the run has failed on the RSA
\* match, after reading its public area.
C15_Witness ==
    /\ persistent.alg = "ecc"
    /\ ak_public = persistent
    /\ dpc = "failed"
    /\ derr = "AK is not an RSA key"

\* The run has gone through detect_provider.
Detected == dpc \notin {"parse", "detect"} /\ derr \notin ParseErrors

\* C16: detect_provider returns the TPM provider exactly when the TPM device
\* path exists; when it does not exist the run fails with 'no seed provider
\* detected' and main issues no TPM command, obtains no key material, derives
\* no seed and serves nothing.
C16_ProviderDetection ==
    /\ Detected => (provider = "tpm" <=> tpm_device)
    /\ Detected => (derr = "no seed provider detected" <=> ~tpm_device)
    /\ ~Detected => provider = "none"
    /\ ~tpm_device =>
          /\ dpc \in {"parse", "detect", "failed"}
          /\ dops = <<>> /\ ikm = <<>> /\ seed = <<>> /\ derived = {}
          /\ json = <<>> /\ iter = 0 /\ received = <<>>

\* The device path does not exist and the run has ended on the detection.
C16_Witness ==
    /\ ~tpm_device
    /\ dpc = "failed"
    /\ derr = "no seed provider detected"
    /\ provider = "none"

\* C17: once an object is at the AK handle, no step of any provisioning run
\* or derivation run changes, replaces or removes it; so every derivation
\* made (the launch configuration being the same bytes in every launch) used
\* the key material of the object now at the handle, and all of them, across
\* restarts of the derivation process, obtained the same key material and the
\* same seed.
C17_AkStability ==
    /\ [][persistent # NoObj => persistent' = persistent]_vars
    /\ [](\A a \in derived :
            /\ persistent # NoObj
            /\ a.ikm = SubjectPublicKeyInfo(persistent)
            /\ a.digest = Sha256(init_data.raw))
    /\ [](\A a, b \in derived : a.ikm = b.ikm /\ a.seed = b.seed)
    /\ [](seed # <<>> => \A a \in derived : a.seed = seed)

\* Two launches of the derivation process have each derived a seed from the
\* AK that a provisioning run persisted, and a provisioning process has been
\* invoked a second time and has found the AK in place.
C17_Witness ==
    /\ persistent.kind = "ak"
    /\ {a.launch : a \in derived} = {1, 2}
    /\ \E p \in Procs :
          /\ runs[p] = 2 /\ pc[p] = "done"
          /\ probe[p] = "resolved" /\ result[p] = "ok"

\* The run of p that is returning (or has returned) is the one that put the
\* object now at the handle there.
PersistedByRun(p) == ak[p] # NoObj /\ persistent = ak[p]

Returned(p) == pc[p] \in {"drop", "done"} /\ result[p] # "none"

\* C18 as stated: whenever provision_ak returns success an object resolves at
\* the handle at that moment, and whenever a run persisted a new object at the
\* handle that run returns success (no error is reported after persistent TPM
\* state was changed).
C18_Original ==
    \A p \in Procs :
       Returned(p) =>
          /\ result[p] = "ok" => persistent # NoObj
          /\ PersistedByRun(p) => result[p] = "ok"

\* C18, amended: whenever provision_ak returns success an object resolves at
\* the handle at that moment; a run that persisted a new object returns
\* success unless the EK flush that follows evict-control failed, in which
\* case it returns that error with its AK in place; a run that returns an
\* error from any earlier step has persisted nothing.
C18_SuccessPostcondition ==
    \A p \in Procs :
       Returned(p) =>
          /\ result[p] = "ok" => persistent # NoObj
          /\ PersistedByRun(p) =>
                \/ result[p] = "ok"
                \/ result[p] = "err" /\ failedAt[p] = "flush_context"
          /\ (result[p] = "err" /\ failedAt[p] # "flush_context") => ~PersistedByRun(p)
          /\ (result[p] = "ok" /\ probe[p] # "resolved") => PersistedByRun(p)

\* A run has persisted its AK, then failed on the EK flush, and has returned
\* the error with its AK at the handle.
C18_Witness ==
    \E p \in Procs :
       /\ pc[p] = "done"
       /\ PersistedByRun(p)
       /\ result[p] = "err"
       /\ failedAt[p] = "flush_context"

\* C19 as stated, in the form a finite run can refute: while the server keeps
\* running, no reader is blocked in its open of a FIFO that the server created,
\* has written to and has unlinked (such a reader can never be served: a
\* writer can reach that FIFO only through the path).
C19_Original ==
    (dpc # "failed" /\ reader = "waiting" /\ reader_fifo >= 1) =>
        (path = "fifo" /\ fifo_id = reader_fifo)

\* The TPM commands of ak_public_key_der, in the order it issues them.
DerivationCommands == <<"context", "tr_from_tpm_public", "read_public">>

\* C20: the derivation path is read-only on the TPM: a run of ikm(), whether
\* it succeeds or fails, issues only the context set-up, the handle resolution
\* and read-public, in that order, and none of its steps changes the object at
\* the persistent handle or the set of loaded transient objects (which the
\* provisioning processes may be using at the same time).
C20_DerivationReadOnly ==
    /\ [](/\ Len(dops) <= Len(DerivationCommands)
          /\ dops = SubSeq(DerivationCommands, 1, Len(dops)))
    /\ [][(dpc' # dpc \/ dops' # dops) =>
             (persistent' = persistent /\ transient' = transient)]_vars

\* The derivation process, in its second launch, has issued its three
\* commands and obtained its key material while a provisioning run has a
\* transient object loaded in the TPM.
C20_Witness ==
    /\ dops = DerivationCommands
    /\ ikm # <<>>
    /\ transient # {}
    /\ launches = 2
====
